---- MODULE Spec2Model ----
(***************************************************************************)
(* Model of src/process.rs: Command / Stdio / Child / ExitStatus and the   *)
(* clone-exec protocol of Command::exec.  The calling process ("parent")   *)
(* and every process created by clone have their own descriptor table; the *)
(* result cell and the environment are shared with the child only when the *)
(* flags passed to clone contain CLONE_VM, and the parent is held until    *)
(* the child execs or exits only when they contain CLONE_VFORK.            *)
(***************************************************************************)
EXTENDS Integers, Sequences, FiniteSets, TLC

(* ------------------------------ bounds -------------------------------- *)

\* Pipes the caller may have open at a time (made by Stdio::piped()).
MaxPipes == 3
\* Files the caller may have open at a time to wrap with Stdio::from_raw_fd.
MaxRaw == 1
\* Calls of spawn / spawn_supervise that reach clone.
MaxSpawns == 2
\* Longest Command path and longest value of PATH, in characters.
MaxPathLen == 2
\* Times the exit syscall may return to one process instead of ending it.
MaxExitReturns == 1

(* ----------------------- descriptors and tables ----------------------- *)

Streams == {"stdin", "stdout", "stderr"}

\* The descriptor number of a standard stream (the literals 0, 1, 2 of the
\* child closure).
Slot(s) == CASE s = "stdin" -> 0 [] s = "stdout" -> 1 [] s = "stderr" -> 2

NumFds == 3 + 2 * MaxPipes + MaxRaw
Fds == 0 .. (NumFds - 1)

\* What a descriptor refers to: nothing, a standard stream of the caller,
\* one end of a pipe, or a file.
ClosedRes == <<>>
StdRes(n) == <<"std", n>>
PipeRes(n, e) == <<"pipe", n, e>>
FileRes(n) == <<"file", n>>

\* A descriptor table is the sequence of what descriptors 0, 1, 2, ...
\* refer to.
At(t, fd) == t[fd + 1]
Put(t, fd, r) == [t EXCEPT ![fd + 1] = r]
EmptyTable == [i \in 1 .. NumFds |-> ClosedRes]

IsOpen(t, fd) == fd \in Fds /\ At(t, fd) # ClosedRes

FreeFds(t) == {f \in Fds : At(t, f) = ClosedRes}

LowestFree(t) == CHOOSE f \in FreeFds(t) : \A g \in FreeFds(t) : f <= g

\* Result<T>: Ok(val) or Err(errno).
Ok(v) == [tag |-> "Ok", val |-> v]
Err(e) == [tag |-> "Err", val |-> e]

\* Error numbers of the syscall crate that the protocol can meet.
Errno == [ENOENT |-> 2, EBADF |-> 9, ECHILD |-> 10, EAGAIN |-> 11, EMFILE |-> 24]

\* close(fd): the table afterwards (the code discards every close result).
close(t, fd) == IF IsOpen(t, fd) THEN Put(t, fd, ClosedRes) ELSE t

\* dup(fd): the result and the table afterwards.  The duplicate lands on the
\* lowest free descriptor number; `refuse` is the kernel declining the call.
dup(t, fd, refuse) ==
    IF ~IsOpen(t, fd) THEN [res |-> Err(Errno.EBADF), fds |-> t]
    ELSE IF refuse \/ FreeFds(t) = {} THEN [res |-> Err(Errno.EMFILE), fds |-> t]
    ELSE [res |-> Ok(LowestFree(t)), fds |-> Put(t, LowestFree(t), At(t, fd))]

RECURSIVE CloseAll(_, _)
CloseAll(t, fdseq) ==
    IF fdseq = <<>> THEN t ELSE CloseAll(close(t, Head(fdseq)), Tail(fdseq))

(* ------------------------------- Stdio -------------------------------- *)

\* enum StdioType { Piped(usize, usize), Raw(usize), Inherit, Null }
Piped(read, write) == [tag |-> "Piped", fds |-> <<read, write>>]
Raw(fd) == [tag |-> "Raw", fds |-> <<fd>>]
Inherit == [tag |-> "Inherit", fds |-> <<>>]
Null == [tag |-> "Null", fds |-> <<>>]

\* The descriptors a Stdio value owns.
OwnedFds(st) == {st.fds[i] : i \in DOMAIN st.fds}

(* ------------------------- machine words ------------------------------ *)

\* A usize is kept as four 16-bit limbs, least significant first, so that
\* the 64-bit width and the truncating casts stay exact.
LimbBase == 2 ^ 16
Limbs == 0 .. (LimbBase - 1)

ZeroWord == <<0, 0, 0, 0>>
\* n as usize, for 0 <= n < 2^16.
ToWord(n) == <<n, 0, 0, 0>>
\* -(e) as usize (two's complement), for 0 < e < 2^16.
NegWord(e) == <<LimbBase - e, LimbBase - 1, LimbBase - 1, LimbBase - 1>>

\* `w as i32`: the low 32 bits, read as a signed value.
AsI32Wide(w) == w[1] + LimbBase * w[2]
AsI32(w) ==
    w[1] + LimbBase * (IF w[2] >= LimbBase \div 2 THEN w[2] - LimbBase ELSE w[2])

\* `code as usize` of an i32: sign-extended to the full word.
AsUsize(c) ==
    IF c >= 0 THEN <<c % LimbBase, c \div LimbBase, 0, 0>>
    ELSE LET u == c + 2147483647 + 1
         IN  <<u % LimbBase, (u \div LimbBase) + LimbBase \div 2,
               LimbBase - 1, LimbBase - 1>>

Some(v) == <<v>>
None == <<>>

\* SysError::mux: Ok(value) is the value, Err(e) is -errno as usize.
muxUnsigned(r) == ToWord(r.val)
mux(r) == IF r.tag = "Ok" THEN ToWord(r.val) ELSE NegWord(r.val)

\* SysError::demux: a word whose low half, negated, is an error number
\* decodes to that error; any other word is a value.
ErrnoRange == 1 .. 130
demux(w) == IF (0 - AsI32(w)) \in ErrnoRange THEN Err(0 - AsI32(w)) ELSE Ok(w)

(* ------------------------------ strings ------------------------------- *)

\* A string is the sequence of its characters.  The alphabet has the two
\* characters exec looks for and one that is neither.
PathChars == {"/", ":", "f"}

RECURSIVE StringsOfLen(_)
StringsOfLen(n) ==
    IF n = 0 THEN {<<>>}
    ELSE {Append(t, c) : t \in StringsOfLen(n - 1), c \in PathChars}

Strings(n) == UNION {StringsOfLen(k) : k \in 0 .. n}

\* str::contains(char)
RECURSIVE contains(_, _)
contains(str, c) ==
    IF str = <<>> THEN FALSE ELSE Head(str) = c \/ contains(Tail(str), c)

\* str::ends_with(char)
ends_with(str, c) == str # <<>> /\ str[Len(str)] = c

\* Option::unwrap_or / Result::unwrap_or on an optional value.
unwrap_or(opt, default) == IF opt = None THEN default ELSE opt[1]

\* self.path.contains(':') || self.path.contains('/')
HasSeparatorSlashOnly(path) == contains(path, "/")
HasSeparator(path) == contains(path, ":") \/ contains(path, "/")

\* The `let path = ...` of exec: the path handed to execve, from the
\* Command's path and the caller's PATH (None when unset).
ResolvePath(path, path_var) ==
    IF HasSeparator(path) THEN path
    ELSE LET path_env == unwrap_or(path_var, <<".">>)
             dir == IF ~ends_with(path_env, "/") THEN Append(path_env, "/")
                    ELSE path_env
         IN  dir \o path

(* ----------------------------- ExitStatus ----------------------------- *)

ExitStatus(status) == [status |-> status]

successOfCode(es) == AsI32(es.status) = 0
success(es) == es.status = ZeroWord

code(es) == Some(AsI32(es.status))

(* ------------------------ the child closure --------------------------- *)

\* Which field of Piped(read, write) the child duplicates into its slot:
\* read (1) for stdin, write (2) for stdout and stderr.
InstalledEndSwapped(s) == IF s = "stdin" THEN 2 ELSE 1
InstalledEnd(s) == IF s = "stdin" THEN 1 ELSE 2

Op(name, fd, s) == [op |-> name, fd |-> fd, by |-> s]

\* One of the three `match child_std*` blocks: the table, the block's
\* value and the descriptor calls made, in order.
WireStream(s, st, t, refuse) ==
    CASE st.tag = "Piped" ->
            LET other == st.fds[3 - InstalledEnd(s)]
                src == st.fds[InstalledEnd(s)]
                d == dup(close(close(t, other), Slot(s)), src, refuse)
            IN  [fds |-> close(d.fds, src), res |-> d.res,
                 ops |-> <<Op("close", other, s), Op("close", Slot(s), s),
                           Op("dup", src, s), Op("close", src, s)>>]
      [] st.tag = "Raw" ->
            LET d == dup(close(t, Slot(s)), st.fds[1], refuse)
            IN  [fds |-> close(d.fds, st.fds[1]), res |-> d.res,
                 ops |-> <<Op("close", Slot(s), s), Op("dup", st.fds[1], s),
                           Op("close", st.fds[1], s)>>]
      [] st.tag = "Null" ->
            [fds |-> close(t, Slot(s)), res |-> Ok(0),
             ops |-> <<Op("close", Slot(s), s)>>]
      [] OTHER -> [fds |-> t, res |-> Ok(0), ops |-> <<>>]

Pending == [tag |-> "Pending", val |-> 0]

\* The three try! lines: the first error in the order stderr, stdout,
\* stdin, or Ok when there is none.
TryAllButStdin(results) ==
    IF results["stderr"].tag = "Err" THEN results["stderr"]
    ELSE IF results["stdout"].tag = "Err" THEN results["stdout"]
    ELSE Ok(0)
TryAll(results) ==
    IF results["stderr"].tag = "Err" THEN results["stderr"]
    ELSE IF results["stdout"].tag = "Err" THEN results["stdout"]
    ELSE IF results["stdin"].tag = "Err" THEN results["stdin"]
    ELSE Ok(0)

(* ------------------------- the parent branch -------------------------- *)

\* Which field of Piped(read, write) the parent closes and which it keeps
\* on the success path.
ParentCloses(s) == IF s = "stdin" THEN 1 ELSE 2
ParentKeepsSame(s) == IF s = "stdin" THEN 1 ELSE 2
ParentKeeps(s) == IF s = "stdin" THEN 2 ELSE 1

\* The closes of one `match self.std*.inner` block of the failure path.
FailCloses(s, st) ==
    CASE st.tag = "Piped" ->
            IF s = "stdin"
            THEN <<Op("close", st.fds[1], s), Op("close", st.fds[2], s)>>
            ELSE <<Op("close", st.fds[2], s), Op("close", st.fds[1], s)>>
      [] st.tag = "Raw" -> <<Op("close", st.fds[1], s)>>
      [] OTHER -> <<>>

\* The closes of one field initialiser of the Child literal.
OkCloses(s, st) ==
    CASE st.tag = "Piped" -> <<Op("close", st.fds[ParentCloses(s)], s)>>
      [] st.tag = "Raw" -> <<Op("close", st.fds[1], s)>>
      [] OTHER -> <<>>

\* The stream handle of one field initialiser of the Child literal.
HandleAlsoForRaw(s, st) ==
    CASE st.tag = "Piped" -> Some(st.fds[ParentKeeps(s)])
      [] st.tag = "Raw" -> Some(st.fds[1])
      [] OTHER -> None
Handle(s, st) ==
    IF st.tag = "Piped" THEN Some(st.fds[ParentKeeps(s)]) ELSE None

\* Both paths name the streams in the order stdin, stdout, stderr.
ParentFailOps(stdio) ==
    FailCloses("stdin", stdio["stdin"]) \o FailCloses("stdout", stdio["stdout"])
        \o FailCloses("stderr", stdio["stderr"])
ParentOkOps(stdio) ==
    OkCloses("stdin", stdio["stdin"]) \o OkCloses("stdout", stdio["stdout"])
        \o OkCloses("stderr", stdio["stderr"])

\* The descriptors of a sequence of calls, in order.
FdsOf(ops) == [i \in DOMAIN ops |-> ops[i].fd]

\* How often fd occurs in a sequence of descriptors.
RECURSIVE Count(_, _)
Count(fdseq, fd) ==
    IF fdseq = <<>> THEN 0
    ELSE (IF Head(fdseq) = fd THEN 1 ELSE 0) + Count(Tail(fdseq), fd)

(* ------------------------------ state --------------------------------- *)

VARIABLES
    cmd,        \* the Command: its three Stdio fields and its env map
    fds,        \* the calling process's descriptor table
    penv,       \* the calling process's environment
    closes,     \* per descriptor: closes by the caller since it was opened
    res,        \* the result cell (Box::new(0)) in the caller's memory
    call,       \* the exec call in progress or last returned
    proc,       \* the process created by the latest clone
    child,      \* the Child value the caller holds, if any
    waited,     \* what the last Child::wait on it returned
    spawns      \* exec calls made

vars == <<cmd, fds, penv, closes, res, call, proc, child, waited, spawns>>

Keys == {"K"}
NoVal == "-"
\* An environment: the variables of Keys, and PATH (None when unset).
EnvWith(path_var) ==
    [k \in Keys \cup {"PATH"} |-> IF k = "PATH" THEN path_var ELSE "p"]
InitEnv == EnvWith(None)
\* The path given to Command::new.
InitPath == <<"f">>
OverrideVals == {"c"}

\* Status words a program may leave behind: 0, 7, 2^31 and 2^32.
ExitWords == {ZeroWord, ToWord(7), <<0, LimbBase \div 2, 0, 0>>, <<0, 0, 1, 0>>}

\* Flags of Command::spawn and Command::spawn_supervise, as sets of names.
spawn_flags_vm == {"CLONE_VM"}
spawn_flags == {}
supervise_flags_vm == {"CLONE_SUPERVISE", "CLONE_VM"}
supervise_flags == {"CLONE_SUPERVISE"}

\* clone: the memory (result cell, environment) is shared with the new
\* process when CLONE_VM is passed, and copied otherwise.
SharesMemory(flags) == "CLONE_VM" \in flags
\* clone: the caller is held until the new process execs or exits when
\* CLONE_VFORK is passed.
BlocksParent(flags) == "CLONE_VFORK" \in flags

AllInherit == [s \in Streams |-> Inherit]

NoChild == [pid |-> 0, stdin |-> None, stdout |-> None, stderr |-> None]
NoResult == [tag |-> "None", val |-> 0, child |-> NoChild]

NoProc ==
    [pc |-> "none", pid |-> 0, fds |-> EmptyTable,
     env |-> InitEnv, stdio |-> AllInherit, overrides |-> [k \in Keys |-> NoVal],
     results |-> [s \in Streams |-> Pending], ops |-> <<>>, cell |-> ZeroWord,
     flags |-> {}, err |-> Pending, execCalled |-> FALSE, envSet |-> FALSE,
     status |-> ZeroWord, path |-> <<>>, execPath |-> None,
     returns |-> 0, exitArg |-> ZeroWord, cellWrites |-> 0, cellReads |-> 0]

NoWait == [tag |-> "None", pid |-> 0, errno |-> 0, es |-> None,
           success |-> FALSE, code |-> None]

\* A process is out of the exec protocol: not created, running its new
\* image, exited, or reaped.
Settled == {"none", "running", "zombie", "reaped"}

IdleCall == [pc |-> "idle", entry |-> "-", flags |-> {}, pid |-> 0,
             stdio |-> AllInherit, ops |-> <<>>, result |-> NoResult,
             path |-> <<>>, piped |-> <<>>, cellReads |-> 0, cellWrites |-> 0]

\* The caller has just stored the value of a Stdio::piped() call in the
\* field of stream s; outcome is "Ok" or "Err", that of its pipe2.
AfterPiped(s, outcome) == [IdleCall EXCEPT !.piped = <<s, outcome>>]

\* Command::new(path) in a process whose PATH is path_var.
InitWith(path, path_var) ==
    /\ cmd = [stdio |-> AllInherit, env |-> [k \in Keys |-> NoVal], path |-> path]
    /\ fds = [i \in 1 .. NumFds |-> IF i <= 3 THEN StdRes(i - 1) ELSE ClosedRes]
    /\ penv = EnvWith(path_var)
    /\ closes = [i \in 1 .. NumFds |-> 0]
    /\ res = ZeroWord
    /\ call = IdleCall
    /\ proc = NoProc
    /\ child = None
    /\ waited = NoWait
    /\ spawns = 0

Init == InitWith(InitPath, None)

\* The caller is between two uses of the Command: it is not inside exec
\* and it has dropped the Child of the previous spawn; the process of that
\* spawn is then no longer followed.
CallerFree == call.pc # "parent" /\ child = None /\ proc.pc = "none"

\* Command::stdin / stdout / stderr replace the field.  A field is set
\* while it owns no descriptor, or when a spawn has used its value (a
\* descriptor it names is closed in the caller).
CanSet(s) ==
    /\ CallerFree
    /\ \/ cmd.stdio[s].tag \in {"Inherit", "Null"}
       \/ \E fd \in OwnedFds(cmd.stdio[s]) : ~IsOpen(fds, fd)

(* ----------------------- Stdio and the builder ------------------------ *)

\* pipe2(&mut fds, 0) on success: the two lowest free descriptors become
\* the read end and the write end of pipe n.
pipe2(t, n) ==
    LET r == LowestFree(t)
        w == LowestFree(Put(t, r, PipeRes(n, "r")))
    IN  [read |-> r, write |-> w,
         fds |-> Put(Put(t, r, PipeRes(n, "r")), w, PipeRes(n, "w"))]

\* Pipes and files with a descriptor open in table t.
OpenOf(t, kind) ==
    {At(t, f)[2] : f \in {g \in Fds : IsOpen(t, g) /\ At(t, g)[1] = kind}}
OpenPipes(t) == OpenOf(t, "pipe")
OpenFiles(t) == OpenOf(t, "file")
NewId(used) == CHOOSE n \in 1 .. (Cardinality(used) + 1) : n \notin used

\* The close counts once the Stdio `old` of a field is replaced and the
\* descriptors in `opened` are new: both sets start again at zero.
Recount(c, old, opened) ==
    [i \in 1 .. NumFds |->
        IF (i - 1) \in OwnedFds(old) \cup opened THEN 0 ELSE c[i]]

\* Stdio::piped() when pipe2 succeeds, stored by Command::stdin / stdout /
\* stderr.  The Stdio it replaces is dropped; Stdio has no Drop.
StdioPiped(s) ==
    /\ CanSet(s)
    /\ Cardinality(OpenPipes(fds)) < MaxPipes
    /\ LET p == pipe2(fds, NewId(OpenPipes(fds)))
       IN  /\ fds' = p.fds
           /\ cmd' = [cmd EXCEPT !.stdio[s] = Piped(p.read, p.write)]
           /\ closes' = Recount(closes, cmd.stdio[s], {p.read, p.write})
    /\ call' = AfterPiped(s, "Ok")
    /\ UNCHANGED <<penv, res, proc, child, waited, spawns>>

\* The else branch of Stdio::piped(): Stdio::null().
PipedFallbackInherit == Inherit
PipedFallback == Null

\* Stdio::piped() when pipe2 fails, stored by Command::stdin / stdout /
\* stderr.
StdioPipedFails(s) ==
    /\ CanSet(s)
    /\ cmd' = [cmd EXCEPT !.stdio[s] = PipedFallback]
    /\ closes' = Recount(closes, cmd.stdio[s], {})
    /\ call' = AfterPiped(s, "Err")
    /\ UNCHANGED <<fds, penv, res, proc, child, waited, spawns>>

StdioNull(s) ==
    /\ CanSet(s)
    /\ cmd' = [cmd EXCEPT !.stdio[s] = Null]
    /\ closes' = Recount(closes, cmd.stdio[s], {})
    /\ call' = IdleCall
    /\ UNCHANGED <<fds, penv, res, proc, child, waited, spawns>>

StdioInherit(s) ==
    /\ CanSet(s)
    /\ cmd' = [cmd EXCEPT !.stdio[s] = Inherit]
    /\ closes' = Recount(closes, cmd.stdio[s], {})
    /\ call' = IdleCall
    /\ UNCHANGED <<fds, penv, res, proc, child, waited, spawns>>

\* Stdio::from_raw_fd(fd) of a descriptor the caller has just opened.
StdioRaw(s) ==
    /\ CanSet(s)
    /\ Cardinality(OpenFiles(fds)) < MaxRaw
    /\ LET fd == LowestFree(fds)
       IN  /\ fds' = Put(fds, fd, FileRes(NewId(OpenFiles(fds))))
           /\ cmd' = [cmd EXCEPT !.stdio[s] = Raw(fd)]
           /\ closes' = Recount(closes, cmd.stdio[s], {fd})
    /\ call' = IdleCall
    /\ UNCHANGED <<penv, res, proc, child, waited, spawns>>

\* Command::env(key, val)
CommandEnv(k, v) ==
    /\ CallerFree
    /\ cmd' = [cmd EXCEPT !.env[k] = v]
    /\ call' = IdleCall
    /\ UNCHANGED <<fds, penv, closes, res, proc, child, waited, spawns>>

(* --------------------------- Command::exec ---------------------------- *)

IncCloses(c, fdseq) == [i \in 1 .. NumFds |-> c[i] + Count(fdseq, i - 1)]

\* exec up to and including clone(flags): the cell is allocated, the
\* closure captures copies of the three Stdio values and of the env map.
\* clone either fails (exec returns the error at once) or creates a process
\* that starts in the closure with a copy of the caller's descriptor table.
Exec(entry, flags) ==
    /\ CallerFree
    /\ spawns < MaxSpawns
    /\ res' = ZeroWord
    /\ spawns' = spawns + 1
    /\ waited' = NoWait
    /\ LET path == ResolvePath(cmd.path, penv["PATH"])
       IN  \/ /\ proc' = [NoProc EXCEPT !.pc = "wire_stderr", !.pid = spawns + 1,
                                       !.fds = fds, !.env = penv,
                                       !.stdio = cmd.stdio, !.overrides = cmd.env,
                                       !.flags = flags, !.path = path]
              /\ call' = [pc |-> "parent", entry |-> entry, flags |-> flags,
                          pid |-> spawns + 1, stdio |-> cmd.stdio,
                          ops |-> <<>>, result |-> NoResult, path |-> path,
                          piped |-> <<>>, cellReads |-> 0, cellWrites |-> 0]
           \/ /\ call' = [pc |-> "returned", entry |-> entry, flags |-> flags,
                          pid |-> 0, stdio |-> cmd.stdio, ops |-> <<>>,
                          result |-> [tag |-> "Err", val |-> Errno.EAGAIN,
                                      child |-> NoChild], path |-> path,
                          piped |-> <<>>, cellReads |-> 0, cellWrites |-> 0]
              /\ proc' = NoProc
    /\ UNCHANGED <<cmd, fds, penv, closes, child>>

\* Command::spawn
Spawn == Exec("spawn", spawn_flags)

\* Command::spawn_supervise
SpawnSupervise == Exec("spawn_supervise", supervise_flags)

\* The Ok(pid) arm: read the cell; on an error close what the Stdio values
\* own and return the error, otherwise close the installed ends and return
\* the Child.
ParentBranch ==
    /\ call.pc = "parent"
    /\ BlocksParent(call.flags) => proc.pc \in {"running", "zombie", "reaped"}
    /\ LET d == demux(res)
           ops == IF d.tag = "Err" THEN ParentFailOps(cmd.stdio)
                                   ELSE ParentOkOps(cmd.stdio)
           c == [pid |-> call.pid,
                 stdin |-> Handle("stdin", cmd.stdio["stdin"]),
                 stdout |-> Handle("stdout", cmd.stdio["stdout"]),
                 stderr |-> Handle("stderr", cmd.stdio["stderr"])]
       IN  /\ fds' = CloseAll(fds, FdsOf(ops))
           /\ closes' = IncCloses(closes, FdsOf(ops))
           /\ IF d.tag = "Err"
              THEN /\ call' = [call EXCEPT !.pc = "returned", !.ops = ops,
                                  !.cellReads = @ + 1,
                                  !.result = [tag |-> "Err", val |-> d.val,
                                              child |-> NoChild]]
                   /\ UNCHANGED child
              ELSE /\ call' = [call EXCEPT !.pc = "returned", !.ops = ops,
                                  !.cellReads = @ + 1,
                                  !.result = [tag |-> "Ok", val |-> 0,
                                              child |-> c]]
                   /\ child' = Some(c)
    /\ UNCHANGED <<cmd, penv, res, proc, waited, spawns>>

(* --------------------------- the Ok(0) arm ---------------------------- *)

WirePc(s) == CASE s = "stderr" -> "wire_stderr" [] s = "stdout" -> "wire_stdout"
                [] s = "stdin" -> "wire_stdin"
AfterWireStdinSecond(s) ==
    CASE s = "stderr" -> "wire_stdin" [] s = "stdin" -> "wire_stdout"
      [] s = "stdout" -> "try"
AfterWire(s) == CASE s = "stderr" -> "wire_stdout" [] s = "stdout" -> "wire_stdin"
                   [] s = "stdin" -> "try"

\* Whether the block of stream s runs, given the results so far.
WiringRunsUnlessFailed(results) == \A s \in Streams : results[s].tag # "Err"
WiringRuns(results) == TRUE

\* One `match child_std*` block of the closure.
ChildWire(s) ==
    /\ proc.pc = WirePc(s)
    /\ \E refuse \in BOOLEAN :
         LET w == IF WiringRuns(proc.results)
                  THEN WireStream(s, proc.stdio[s], proc.fds, refuse)
                  ELSE [fds |-> proc.fds, res |-> Ok(0), ops |-> <<>>]
         IN  proc' = [proc EXCEPT !.pc = AfterWire(s), !.fds = w.fds,
                                  !.results[s] = w.res, !.ops = @ \o w.ops]
    /\ UNCHANGED <<cmd, fds, penv, closes, res, call, child, waited, spawns>>

\* The three try! lines.
ChildTry ==
    /\ proc.pc = "try"
    /\ LET r == TryAll(proc.results)
       IN  proc' = IF r.tag = "Err"
                   THEN [proc EXCEPT !.pc = "write", !.err = r]
                   ELSE [proc EXCEPT !.pc = "setenv"]
    /\ UNCHANGED <<cmd, fds, penv, closes, res, call, child, waited, spawns>>

Override(e, o) ==
    [k \in DOMAIN e |-> IF k \in Keys /\ o[k] # NoVal THEN o[k] ELSE e[k]]

\* for (key, val) in env.iter() { env::set_var(key, val) }
ChildSetEnv ==
    /\ proc.pc = "setenv"
    /\ IF SharesMemory(proc.flags)
       THEN /\ penv' = Override(penv, proc.overrides)
            /\ proc' = [proc EXCEPT !.pc = "execve", !.envSet = TRUE]
       ELSE /\ proc' = [proc EXCEPT !.pc = "execve", !.envSet = TRUE,
                                    !.env = Override(@, proc.overrides)]
            /\ UNCHANGED penv
    /\ UNCHANGED <<cmd, fds, closes, res, call, child, waited, spawns>>

\* execve(&path, &args): replaces the image and never returns, or fails.
ChildExecve ==
    /\ proc.pc = "execve"
    /\ \/ proc' = [proc EXCEPT !.pc = "running", !.execCalled = TRUE,
                               !.execPath = Some(proc.path)]
       \/ proc' = [proc EXCEPT !.pc = "write", !.execCalled = TRUE,
                               !.execPath = Some(proc.path),
                               !.err = Err(Errno.ENOENT)]
    /\ UNCHANGED <<cmd, fds, penv, closes, res, call, child, waited, spawns>>

\* *child_res = SysError::mux(error...)
ChildWriteCell ==
    /\ proc.pc = "write"
    /\ IF SharesMemory(proc.flags)
       THEN /\ res' = mux(proc.err)
            /\ proc' = [proc EXCEPT !.pc = "exit", !.cellWrites = @ + 1]
       ELSE /\ proc' = [proc EXCEPT !.pc = "exit", !.cell = mux(proc.err),
                                    !.cellWrites = @ + 1]
            /\ UNCHANGED res
    /\ UNCHANGED <<cmd, fds, penv, closes, call, child, waited, spawns>>

\* A process that exits leaves its status word; its descriptors are closed.
Exited(p, w) ==
    [p EXCEPT !.pc = "zombie", !.status = w, !.fds = EmptyTable,
              !.returns = 0, !.exitArg = ZeroWord]

\* The exit syscall has returned to the process: the loop around it goes
\* round once more.
ExitReturnedFallsThrough(p) == [p EXCEPT !.pc = "running", !.returns = @ + 1]
ExitReturned(p) == [p EXCEPT !.returns = @ + 1]

\* loop { let _ = syscall::exit(127); }: one call of the syscall, which
\* ends the process or returns.
ChildExit ==
    /\ proc.pc = "exit"
    /\ \/ proc' = Exited(proc, ToWord(127))
       \/ /\ proc.returns < MaxExitReturns
          /\ proc' = ExitReturned(proc)
    /\ UNCHANGED <<cmd, fds, penv, closes, res, call, child, waited, spawns>>

\* Exit codes a program may pass to exit(code).
ExitCodes == {0, 1, 7, 127, -1, -7, 2147483647, -2147483647 - 1}

\* pub fn exit(code: i32) -> !, called by the program the child exec'd.
ExitCall(c) ==
    /\ proc.pc = "running"
    /\ call.pc = "returned"
    /\ proc' = [proc EXCEPT !.pc = "exit_helper", !.exitArg = AsUsize(c)]
    /\ UNCHANGED <<cmd, fds, penv, closes, res, call, child, waited, spawns>>

\* loop { let _ = syscall::exit(code as usize); }: one call of the syscall.
ExitLoop ==
    /\ proc.pc = "exit_helper"
    /\ \/ proc' = Exited(proc, proc.exitArg)
       \/ /\ proc.returns < MaxExitReturns
          /\ proc' = ExitReturned(proc)
    /\ UNCHANGED <<cmd, fds, penv, closes, res, call, child, waited, spawns>>

\* The program started by execve ends and leaves a status word.  (Its end
\* and the parent branch commute; the end is taken after the branch.)
ProgramExit(w) ==
    /\ proc.pc = "running"
    /\ call.pc = "returned"
    /\ proc' = Exited(proc, w)
    /\ UNCHANGED <<cmd, fds, penv, closes, res, call, child, waited, spawns>>

(* ------------------------------- Child -------------------------------- *)

\* `w as u32`: the low 32 bits, as two limbs.
AsU32(w) == <<w[1], w[2]>>

\* Child::id: self.pid as u32
id(c) == AsU32(ToWord(c.pid))

\* The descriptors Child::wait closes before it waits: none.
WaitClosesStdin(c) == c.stdin
WaitCloses(c) == <<>>

\* Child::wait: waitpid(self.pid, &mut status, 0) blocks until the process
\* has exited; it fails when there is no such child left to wait for.
Wait ==
    /\ call.pc = "returned"
    /\ child # None
    /\ child[1].pid = proc.pid
    /\ \/ /\ proc.pc = "zombie"
          /\ proc' = [proc EXCEPT !.pc = "reaped"]
          /\ waited' = [tag |-> "Ok", pid |-> proc.pid, errno |-> 0,
                        es |-> Some(ExitStatus(proc.status)),
                        success |-> success(ExitStatus(proc.status)),
                        code |-> code(ExitStatus(proc.status))]
       \/ /\ proc.pc = "reaped"
          /\ waited' = [tag |-> "Err", pid |-> proc.pid, errno |-> Errno.ECHILD,
                        es |-> None, success |-> FALSE, code |-> None]
          /\ UNCHANGED proc
    /\ fds' = CloseAll(fds, WaitCloses(child[1]))
    /\ closes' = IncCloses(closes, WaitCloses(child[1]))
    /\ UNCHANGED <<cmd, penv, res, call, child, spawns>>

HandleFds(c) == c.stdin \o c.stdout \o c.stderr

\* Dropping the Child drops its fields in order; each Some handle closes
\* its descriptor.  The Result of spawn and the ExitStatus go out of scope
\* with it, and the process is followed no further.  (The caller and the
\* process work on separate descriptor tables, so the drop and the rest of
\* the closure commute; the drop is taken after it.)
DropChild ==
    /\ call.pc = "returned"
    /\ child # None
    /\ proc.pc \in Settled
    /\ fds' = CloseAll(fds, HandleFds(child[1]))
    /\ closes' = IncCloses(closes, HandleFds(child[1]))
    /\ child' = None
    /\ waited' = NoWait
    /\ call' = IdleCall
    /\ proc' = NoProc
    /\ UNCHANGED <<cmd, penv, res, spawns>>

(* --------------------------- specification ---------------------------- *)

Next ==
    \/ \E s \in Streams : StdioPiped(s)
    \/ \E s \in Streams : StdioPipedFails(s)
    \/ \E s \in Streams : StdioNull(s)
    \/ \E s \in Streams : StdioInherit(s)
    \/ \E s \in Streams : StdioRaw(s)
    \/ \E k \in Keys, v \in OverrideVals : CommandEnv(k, v)
    \/ Spawn
    \/ SpawnSupervise
    \/ ParentBranch
    \/ \E s \in Streams : ChildWire(s)
    \/ ChildTry
    \/ ChildSetEnv
    \/ ChildExecve
    \/ ChildWriteCell
    \/ ChildExit
    \/ \E w \in ExitWords : ProgramExit(w)
    \/ Wait
    \/ DropChild

Spec == Init /\ [][Next]_vars

(* ------------------------- path resolution ---------------------------- *)

\* The values PATH may have in the caller: unset, or a string.
PathVars == {None} \cup {Some(d) : d \in Strings(MaxPathLen)}

\* Command::new(path) for every path and every PATH within the bounds.
PathInit ==
    \E path \in Strings(MaxPathLen), path_var \in PathVars :
        InitWith(path, path_var)

\* A spawn of that Command, followed as far as the child's execve.
PathNext ==
    \/ Spawn
    \/ SpawnSupervise
    \/ \E s \in Streams : ChildWire(s)
    \/ ChildTry
    \/ ChildSetEnv
    \/ ChildExecve

PathSpec == PathInit /\ [][PathNext]_vars

(* ----------------------------- process exit --------------------------- *)

\* A Command with its defaults is spawned; the child runs the whole Ok(0)
\* arm, and the program it execs ends through exit(code).
ExitNext ==
    \/ Spawn
    \/ SpawnSupervise
    \/ ParentBranch
    \/ \E s \in Streams : ChildWire(s)
    \/ ChildTry
    \/ ChildSetEnv
    \/ ChildExecve
    \/ ChildWriteCell
    \/ ChildExit
    \/ \E c \in ExitCodes : ExitCall(c)
    \/ ExitLoop
    \/ Wait
    \/ DropChild

ExitSpec == Init /\ [][ExitNext]_vars

(* --------------------------- child wiring ----------------------------- *)

StdioKinds == {"Piped", "Raw", "Null", "Inherit"}

\* The orders in which the caller may have made its three Stdio values.
Orders ==
    {o \in [1 .. 3 -> Streams] : \A i, j \in 1 .. 3 : o[i] = o[j] => i = j}

\* The caller's table and the three fields once the Stdio value of each
\* stream, of the given kind, has been made and stored, in the given order:
\* Stdio::piped() takes the two lowest free descriptors, a file wrapped by
\* from_raw_fd the lowest free one.
RECURSIVE Built(_, _, _)
Built(order, kinds, acc) ==
    IF order = <<>> THEN acc
    ELSE LET s == Head(order)
             p == pipe2(acc.fds, NewId(OpenPipes(acc.fds)))
             fd == LowestFree(acc.fds)
         IN  Built(Tail(order), kinds,
                CASE kinds[s] = "Piped" ->
                        [fds |-> p.fds,
                         stdio |-> [acc.stdio EXCEPT ![s] = Piped(p.read, p.write)]]
                  [] kinds[s] = "Raw" ->
                        [fds |-> Put(acc.fds, fd, FileRes(NewId(OpenFiles(acc.fds)))),
                         stdio |-> [acc.stdio EXCEPT ![s] = Raw(fd)]]
                  [] kinds[s] = "Null" ->
                        [fds |-> acc.fds, stdio |-> [acc.stdio EXCEPT ![s] = Null]]
                  [] OTHER -> acc)

\* A Command whose three streams have been set, for every combination of
\* kinds and every order of making the values.
WireInit ==
    \E kinds \in [Streams -> StdioKinds], order \in Orders :
        LET b == Built(order, kinds,
                       [fds |-> [i \in 1 .. NumFds |->
                                    IF i <= 3 THEN StdRes(i - 1) ELSE ClosedRes],
                        stdio |-> AllInherit])
        IN  /\ cmd = [stdio |-> b.stdio, env |-> [k \in Keys |-> NoVal],
                      path |-> InitPath]
            /\ fds = b.fds
            /\ penv = InitEnv
            /\ closes = [i \in 1 .. NumFds |-> 0]
            /\ res = ZeroWord
            /\ call = IdleCall
            /\ proc = NoProc
            /\ child = None
            /\ waited = NoWait
            /\ spawns = 0

\* A spawn of that Command, and the whole of the Ok(0) arm.
WireNext ==
    \/ Spawn
    \/ SpawnSupervise
    \/ \E s \in Streams : ChildWire(s)
    \/ ChildTry
    \/ ChildSetEnv
    \/ ChildExecve
    \/ ChildWriteCell
    \/ ChildExit

WireSpec == WireInit /\ [][WireNext]_vars

(* ------------------------------ claims -------------------------------- *)

\* The descriptors owned by the three Stdio values of an exec call.
OwnedBy(stdio) == UNION {OwnedFds(stdio[s]) : s \in Streams}

\* The process of the current call has written an error to its result cell.
ChildWroteFailure ==
    /\ proc.pid = call.pid
    /\ proc.pc \in {"exit", "zombie", "reaped"}
    /\ proc.err.tag = "Err"

\* A step in which the parent branch reads the cell and returns.
ParentReads == call.pc = "parent" /\ call'.pc = "returned"

C2_CloneFailureClosesOwned ==
    (call.pc = "returned" /\ call.pid = 0) =>
        /\ call.result.tag = "Err"
        /\ \A fd \in OwnedBy(call.stdio) : ~IsOpen(fds, fd)

\* C3: if the child's execve fails, the failure code the child writes
\* reaches the parent through the result cell: a parent branch that reads
\* the cell after that write returns an error, never Ok(Child).
C3_ExecFailureReturnsErr ==
    [][(ParentReads /\ ChildWroteFailure /\ proc.execCalled) =>
          (call'.result.tag = "Err" /\ child' = None)]_vars

\* C4: the parent branch reads the result cell only after the child has
\* written the cell, or has exec'd, or has exited.
C4_ReadAfterChildWrite ==
    [][ParentReads => proc.pc \in {"exit", "running", "zombie", "reaped"}]_vars

HandleOf(c, s) ==
    CASE s = "stdin" -> c.stdin [] s = "stdout" -> c.stdout [] s = "stderr" -> c.stderr

\* C5: for every successful spawn and each stream, the Child's handle is
\* Some exactly when the Command's Stdio for that stream is Piped (None for
\* Inherit, Null and Raw); the Child the caller holds is that Child.
C5_HandleIffPiped ==
    (call.pc = "returned" /\ call.result.tag = "Ok") =>
        /\ child = Some(call.result.child)
        /\ \A s \in Streams :
              (HandleOf(call.result.child, s) # None)
                  <=> (call.stdio[s].tag = "Piped")

\* C5 witness: a spawn has succeeded with a Piped, a Raw and a handle-less
\* third stream.
C5_Witness ==
    /\ call.pc = "returned"
    /\ call.result.tag = "Ok"
    /\ \E s, t, u \in Streams :
          /\ call.stdio[s].tag = "Piped"
          /\ call.stdio[t].tag = "Raw"
          /\ call.stdio[u].tag \in {"Inherit", "Null"}
          /\ HandleOf(call.result.child, s) # None
          /\ HandleOf(call.result.child, t) = None

\* The calls of the child closure, and the closes of the parent branch,
\* made for stream s.
ChildCallsFor(s) == {i \in DOMAIN proc.ops : proc.ops[i].by = s}
ParentCallsFor(s) == {i \in DOMAIN call.ops : call.ops[i].by = s}

\* C6: for every Piped stream of a successful spawn, once the child has run
\* the block of that stream: the child duplicates the read end (stdin) or
\* the write end (stdout, stderr), a duplicate that succeeds lands on the
\* stream's slot, the parent's only close for the stream is that same end,
\* and the handle holds the other end.
C6_ParentKeepsOppositeEnd ==
    (call.pc = "returned" /\ call.result.tag = "Ok" /\ proc.pid = call.pid) =>
        \A s \in Streams :
            (call.stdio[s].tag = "Piped" /\ proc.results[s].tag # "Pending") =>
                LET read == call.stdio[s].fds[1]
                    write == call.stdio[s].fds[2]
                    installed == IF s = "stdin" THEN read ELSE write
                    kept == IF s = "stdin" THEN write ELSE read
                    dups == {i \in ChildCallsFor(s) : proc.ops[i].op = "dup"}
                IN  /\ Cardinality(dups) = 1
                    /\ \A i \in dups : proc.ops[i].fd = installed
                    /\ proc.results[s].tag = "Ok" => proc.results[s].val = Slot(s)
                    /\ Cardinality(ParentCallsFor(s)) = 1
                    /\ \A i \in ParentCallsFor(s) :
                          call.ops[i] = Op("close", installed, s)
                    /\ HandleOf(call.result.child, s) = Some(kept)
                    /\ kept # installed

\* C6 witness: a spawn with stdin and stdout Piped has succeeded and the
\* child has installed both ends and exec'd.
C6_Witness ==
    /\ call.pc = "returned"
    /\ call.result.tag = "Ok"
    /\ proc.pid = call.pid
    /\ proc.pc = "running"
    /\ call.stdio["stdin"].tag = "Piped"
    /\ call.stdio["stdout"].tag = "Piped"
    /\ proc.results["stdin"] = Ok(0)
    /\ proc.results["stdout"] = Ok(1)
    /\ At(proc.fds, 0) = PipeRes(At(proc.fds, 0)[2], "r")
    /\ At(proc.fds, 1) = PipeRes(At(proc.fds, 1)[2], "w")

\* C7: over any sequence of spawn calls on one Command, each descriptor
\* owned by a Piped or Raw Stdio is closed by the caller at most once (a
\* later spawn closes nothing that an earlier spawn consumed).
C7_ClosedAtMostOnce == \A i \in 1 .. NumFds : closes[i] <= 1

Rank(s) == CASE s = "stderr" -> 1 [] s = "stdout" -> 2 [] s = "stdin" -> 3

\* C8 as claimed: a failure while wiring one stream leaves no close and no
\* dup performed for the streams after it (stderr, stdout, stdin).
C8_FailureSkipsLaterWiring ==
    \A s, t \in Streams :
        (Rank(s) < Rank(t) /\ proc.results[s].tag = "Err") => ChildCallsFor(t) = {}

CallsOfTag(tag) ==
    CASE tag = "Piped" -> 4 [] tag = "Raw" -> 3 [] tag = "Null" -> 1 [] OTHER -> 0

\* C8 as amended: the three blocks always run, whatever the earlier results
\* (each makes all the calls of its Stdio: four for Piped, three for Raw,
\* one for Null, none for Inherit); a wiring failure short-circuits only
\* what follows the wiring: no variable is set, execve is not called, and
\* the closure returns the first error in the order stderr, stdout, stdin.
C8_WiringAlwaysCompletes ==
    (proc.pc \notin {"none", "wire_stderr", "wire_stdout", "wire_stdin"}) =>
        /\ \A s \in Streams :
              Cardinality(ChildCallsFor(s)) = CallsOfTag(proc.stdio[s].tag)
        /\ ((\E s \in Streams : proc.results[s].tag = "Err") /\ proc.pc # "try") =>
              /\ ~proc.envSet
              /\ ~proc.execCalled
              /\ \E s \in Streams :
                    /\ proc.err = proc.results[s]
                    /\ proc.err.tag = "Err"
                    /\ \A t \in Streams :
                          Rank(t) < Rank(s) => proc.results[t].tag = "Ok"

\* C8 witness: the dup for stderr failed, the blocks of stdout and stdin
\* still made their calls, and the closure returned the stderr error.
C8_Witness ==
    /\ proc.pc = "exit"
    /\ proc.results["stderr"].tag = "Err"
    /\ \E i \in ChildCallsFor("stdout") : proc.ops[i].op = "dup"
    /\ \E i \in ChildCallsFor("stdin") : proc.ops[i].op = "dup"
    /\ proc.err = proc.results["stderr"]

\* C9: the environment of the calling process is the same after any
\* sequence of spawn / spawn_supervise calls as before it, whatever the
\* overrides and the outcome.
C9_ParentEnvUnchanged == penv = InitEnv

\* C9 witness: the child has installed an override in its own environment
\* and exec'd, and the spawn has returned.
C9_Witness ==
    /\ call.pc = "returned"
    /\ proc.pc = "running"
    /\ proc.envSet
    /\ \E k \in Keys : proc.env[k] # InitEnv[k] /\ proc.env[k] = proc.overrides[k]

\* C10: for the status word s that waitpid returned, wait returns an
\* ExitStatus of s with success() == (s == 0) and code() == Some(c), where
\* c is the signed 32-bit value of the low 32 bits of s (so 0 gives true and
\* Some(0), 7 gives false and Some(7)); when waitpid fails, wait returns
\* the error and no ExitStatus.
C10_WaitDecodesStatus ==
    /\ waited.tag = "Ok" =>
          /\ waited.es = Some([status |-> proc.status])
          /\ waited.success = (\A i \in 1 .. 4 : proc.status[i] = 0)
          /\ waited.code # None
          /\ LET c == waited.code[1]
             IN  /\ c >= -2147483647 - 1
                 /\ c <= 2147483647
                 /\ c % LimbBase = proc.status[1]
                 /\ ((c - proc.status[1]) \div LimbBase) % LimbBase = proc.status[2]
          /\ proc.status = ToWord(0) => (waited.success /\ waited.code = Some(0))
          /\ proc.status = ToWord(7) => (~waited.success /\ waited.code = Some(7))
    /\ waited.tag = "Err" => (waited.es = None /\ waited.code = None)

\* C10 witness: wait has returned the status word 2^32, which is not a
\* success although its code is 0.
C10_Witness ==
    /\ waited.tag = "Ok"
    /\ proc.status = <<0, 0, 1, 0>>
    /\ ~waited.success
    /\ waited.code = Some(0)

\* C11: the path handed to execve is the Command's path unchanged when that
\* path has a '/' or a ':' in it; otherwise it is D + path when D (the
\* caller's PATH, or "." when PATH is unset) ends in '/', and D + "/" + path
\* when it does not.  It is computed in the caller before clone: the call
\* holds it from its first step, the closure captures that value and execve
\* is called with it.
C11_PathResolution ==
    (call.pc \in {"parent", "returned"}) =>
        LET p == cmd.path
            D == IF penv["PATH"] = None THEN <<".">> ELSE penv["PATH"][1]
            verbatim == \E i \in 1 .. Len(p) : p[i] \in {"/", ":"}
            slashed == Len(D) > 0 /\ D[Len(D)] = "/"
            expected == IF verbatim THEN p
                        ELSE IF slashed THEN D \o p ELSE D \o <<"/">> \o p
        IN  /\ call.path = expected
            /\ proc.pid = call.pid /\ call.pid # 0 => proc.path = expected
            /\ proc.pid = call.pid /\ proc.execCalled =>
                  proc.execPath = Some(expected)

\* C11 witness: "f" with PATH = "/f" has been resolved to "/f/f" and
\* execve has been called with it.
C11_Witness ==
    /\ cmd.path = <<"f">>
    /\ penv["PATH"] = Some(<<"/", "f">>)
    /\ proc.execCalled
    /\ proc.execPath = Some(<<"/", "f", "/", "f">>)

\* C12: Stdio::piped() always yields a Stdio, never an error.  When pipe2
\* failed, the value is the one Stdio::null() gives: it owns no descriptor,
\* the child's block for it only closes the stream's slot, the parent closes
\* nothing for it and the Child has no handle for it.  When pipe2 succeeded,
\* the value is Piped(read, write) with two distinct descriptors that are
\* the read end and the write end, in that order, of one pipe.
C12_PipedNeverFails ==
    (call.pc = "idle" /\ call.piped # <<>>) =>
        LET s == call.piped[1]
            st == cmd.stdio[s]
        IN  /\ st.tag \in {"Piped", "Null"}
            /\ call.piped[2] = "Err" =>
                  /\ st = Null
                  /\ OwnedFds(st) = {}
                  /\ \A refuse \in BOOLEAN :
                        /\ WireStream(s, st, fds, refuse).ops
                              = <<Op("close", Slot(s), s)>>
                        /\ WireStream(s, st, fds, refuse).res = Ok(0)
                        /\ ~IsOpen(WireStream(s, st, fds, refuse).fds, Slot(s))
                  /\ OkCloses(s, st) = <<>>
                  /\ FailCloses(s, st) = <<>>
                  /\ Handle(s, st) = None
            /\ call.piped[2] = "Ok" =>
                  /\ st.tag = "Piped"
                  /\ Len(st.fds) = 2
                  /\ st.fds[1] # st.fds[2]
                  /\ IsOpen(fds, st.fds[1])
                  /\ IsOpen(fds, st.fds[2])
                  /\ At(fds, st.fds[1]) = PipeRes(At(fds, st.fds[1])[2], "r")
                  /\ At(fds, st.fds[2]) = PipeRes(At(fds, st.fds[1])[2], "w")

\* C12 witness: the latest Stdio::piped() failed and left Null in its field
\* while an earlier one had made a pipe for another stream.
C12_Witness ==
    /\ call.pc = "idle"
    /\ call.piped # <<>>
    /\ call.piped[2] = "Err"
    /\ cmd.stdio[call.piped[1]] = Null
    /\ \E t \in Streams : cmd.stdio[t].tag = "Piped"

\* The descriptor calls the closure has made so far, as a function of the
\* three Stdio values and of which blocks have run.
ChildOpsSoFar ==
    LET W(s) == IF proc.results[s].tag = "Pending" THEN <<>>
                ELSE WireStream(s, call.stdio[s], EmptyTable, FALSE).ops
    IN  W("stderr") \o W("stdout") \o W("stdin")

\* C13: a call through spawn and a call through spawn_supervise differ in
\* the flags given to clone, by exactly the supervise flag, and in nothing
\* else: under either entry the child runs with those flags, its descriptor
\* calls are the ones the three Stdio values determine, its write never
\* reaches the caller's cell, the parent's closes and the kind of result
\* are the ones the cell and the Stdio values determine, and every call
\* made is a close or a dup (there is no supervision handshake).
C13_SameProtocol ==
    (call.pc \in {"parent", "returned"}) =>
        /\ call.entry \in {"spawn", "spawn_supervise"}
        /\ call.entry = "spawn" => call.flags = {}
        /\ call.entry = "spawn_supervise" => call.flags = {"CLONE_SUPERVISE"}
        /\ res = ZeroWord
        /\ call.pid # 0 =>
              /\ proc.pid = call.pid
              /\ proc.flags = call.flags
              /\ proc.ops = ChildOpsSoFar
              /\ \A i \in DOMAIN proc.ops : proc.ops[i].op \in {"close", "dup"}
        /\ call.pc = "parent" => call.ops = <<>>
        /\ (call.pc = "returned" /\ call.pid = 0) =>
              (call.ops = <<>> /\ call.result.tag = "Err")
        /\ (call.pc = "returned" /\ call.pid # 0) =>
              /\ call.result.tag = demux(res).tag
              /\ call.ops = IF demux(res).tag = "Err"
                            THEN ParentFailOps(call.stdio)
                            ELSE ParentOkOps(call.stdio)
              /\ \A i \in DOMAIN call.ops : call.ops[i].op = "close"

\* C13 witness: a spawn_supervise call with a pipe on stdout has returned a
\* Child, having closed the write end, and the child has wired and exec'd.
C13_Witness ==
    /\ call.pc = "returned"
    /\ call.entry = "spawn_supervise"
    /\ call.result.tag = "Ok"
    /\ call.stdio["stdout"].tag = "Piped"
    /\ call.ops # <<>>
    /\ proc.pc = "running"
    /\ Len(proc.ops) >= 4

\* The descriptor of its Stdio value that the block of stream s duplicates:
\* the read end for stdin, the write end for stdout and stderr, the raw
\* descriptor for Raw.
Chosen(s, st) ==
    IF st.tag = "Raw" THEN st.fds[1]
    ELSE IF s = "stdin" THEN st.fds[1] ELSE st.fds[2]

\* The child starts with descriptors 0, 1 and 2 open, and the descriptors of
\* the three Stdio values are pairwise distinct and none of them is 0, 1, 2.
C14_Pre ==
    /\ \A n \in 0 .. 2 : IsOpen(fds, n)
    /\ \A s \in Streams : OwnedFds(call.stdio[s]) \cap (0 .. 2) = {}
    /\ \A s \in Streams : Cardinality(OwnedFds(call.stdio[s])) = Len(call.stdio[s].fds)
    /\ \A s, t \in Streams :
          s # t => OwnedFds(call.stdio[s]) \cap OwnedFds(call.stdio[t]) = {}

\* C14: while the child is in the closure or in its new image (the caller's
\* table is still the one the child started with), for every combination of Stdio values that meets
\* C14_Pre and every stream whose block has run: a Piped or Raw stream
\* whose dup succeeded got the number of its slot from dup, and the slot
\* refers to what the chosen descriptor referred to; a dup fails only when
\* the kernel declines it, never because its source was closed by an
\* earlier block; a Null stream's slot is closed; an Inherit stream's slot is
\* as it was.  For every stream whose block has not run yet, the descriptor
\* it will duplicate is still open and still refers to the same thing.
C14_WiringLandsOnSlots ==
    (call.pc = "parent" /\ proc.pid = call.pid /\ proc.pc # "zombie" /\ C14_Pre) =>
        \A s \in Streams :
            LET st == call.stdio[s]
                ran == proc.results[s].tag # "Pending"
            IN  /\ (ran /\ st.tag \in {"Piped", "Raw"}) =>
                      /\ proc.results[s].tag = "Ok" =>
                            /\ proc.results[s].val = Slot(s)
                            /\ At(proc.fds, Slot(s)) = At(fds, Chosen(s, st))
                      /\ proc.results[s].tag = "Err" =>
                            proc.results[s].val = Errno.EMFILE
                /\ (ran /\ st.tag = "Null") => ~IsOpen(proc.fds, Slot(s))
                /\ (ran /\ st.tag = "Inherit") =>
                      At(proc.fds, Slot(s)) = At(fds, Slot(s))
                /\ (~ran /\ st.tag \in {"Piped", "Raw"}) =>
                      /\ IsOpen(proc.fds, Chosen(s, st))
                      /\ At(proc.fds, Chosen(s, st)) = At(fds, Chosen(s, st))
                      /\ At(proc.fds, Slot(s)) = At(fds, Slot(s))

\* C14 witness: stderr is Null, stdout is a pipe and stdin a raw descriptor;
\* the three blocks have run, slot 2 is closed, slot 1 is the write end of
\* the pipe and slot 0 the file.
C14_Witness ==
    /\ call.pc = "parent"
    /\ C14_Pre
    /\ proc.pc = "try"
    /\ call.stdio["stderr"].tag = "Null"
    /\ call.stdio["stdout"].tag = "Piped"
    /\ call.stdio["stdin"].tag = "Raw"
    /\ ~IsOpen(proc.fds, 2)
    /\ proc.results["stdout"] = Ok(1)
    /\ At(proc.fds, 1)[1] = "pipe"
    /\ At(proc.fds, 1)[3] = "w"
    /\ proc.results["stdin"] = Ok(0)
    /\ At(proc.fds, 0)[1] = "file"

\* The descriptors of table t that refer to an end of pipe n.
OfPipe(t, n) ==
    {f \in Fds : IsOpen(t, f) /\ At(t, f)[1] = "pipe" /\ At(t, f)[2] = n}

\* C15: after a successful spawn, while the caller holds the Child: for each
\* Piped stream the handle's descriptor is open in the caller and is the
\* caller's only descriptor of its pipe (the write end for stdin, the read
\* end for stdout and stderr); once the child has completed its wiring, the
\* child's only descriptor of that pipe is the stream's slot, bound to the
\* opposite end; once the child has exited, no process has the write end of
\* a stdout or stderr pipe open, so a read on the handle meets end-of-file.
C15_OneEndPerSide ==
    (call.pc = "returned" /\ call.result.tag = "Ok" /\ child # None
        /\ proc.pid = call.pid
        /\ proc.pc \in {"setenv", "execve", "running", "zombie", "reaped"}
        /\ TryAll(proc.results).tag = "Ok") =>
        \A s \in Streams :
            call.stdio[s].tag = "Piped" =>
                LET kept == call.stdio[s].fds[IF s = "stdin" THEN 2 ELSE 1]
                    keptEnd == IF s = "stdin" THEN "w" ELSE "r"
                    childEnd == IF s = "stdin" THEN "r" ELSE "w"
                IN  /\ HandleOf(child[1], s) = Some(kept)
                    /\ IsOpen(fds, kept)
                    /\ At(fds, kept)[1] = "pipe"
                    /\ At(fds, kept)[3] = keptEnd
                    /\ OfPipe(fds, At(fds, kept)[2]) = {kept}
                    /\ proc.pc \in {"setenv", "execve", "running"} =>
                          /\ OfPipe(proc.fds, At(fds, kept)[2]) = {Slot(s)}
                          /\ At(proc.fds, Slot(s)) = PipeRes(At(fds, kept)[2], childEnd)
                    /\ proc.pc \in {"zombie", "reaped"} =>
                          OfPipe(proc.fds, At(fds, kept)[2]) = {}

\* Where a process is while it runs the Ok(0) arm of exec.
ChildPcs ==
    {"wire_stderr", "wire_stdout", "wire_stdin", "try", "setenv", "execve",
     "write", "exit"}

\* C16: a step of the process in the Ok(0) arm, or in exit(code), is never
\* a step of the caller's exec (the call, the Child, the caller's table and
\* the Command are untouched) and leads nowhere but on in that arm: execve
\* either ends the arm in the new image or fails and the cell is written
\* next; the write is followed by the exit syscall with 127; an exit syscall
\* that returns is followed by the same exit syscall again; the process
\* ends with status 127.  exit(code) calls the exit syscall with code as
\* usize, calls it again with the same word each time it returns, and the
\* process ends with that word as its status.
C16_ChildNeverReturns ==
    [][/\ ((proc.pc \in ChildPcs \cup {"exit_helper"}) /\ proc' # proc) =>
              /\ UNCHANGED <<cmd, fds, closes, call, child, waited, spawns>>
              /\ (proc.pc \in ChildPcs) =>
                    (proc'.pc \in ChildPcs \cup {"running", "zombie"})
              /\ (proc'.pc = "running") => (proc.pc = "execve")
              /\ (proc.pc = "execve") => (proc'.pc \in {"running", "write"})
              /\ (proc.pc = "write") =>
                    /\ proc'.pc = "exit"
                    /\ proc'.cell = mux(proc.err) \/ res' = mux(proc.err)
              /\ (proc'.pc = "exit") => (proc.pc \in {"write", "exit"})
              /\ (proc.pc = "exit") =>
                    \/ proc'.pc = "zombie" /\ proc'.status = <<127, 0, 0, 0>>
                    \/ proc' = [proc EXCEPT !.returns = proc.returns + 1]
              /\ (proc.pc = "exit_helper") =>
                    \/ proc'.pc = "zombie" /\ proc'.status = proc.exitArg
                    \/ proc' = [proc EXCEPT !.returns = proc.returns + 1]
       /\ (proc.pc = "running" /\ proc'.pc = "exit_helper") =>
              \E c \in ExitCodes :
                  /\ AsI32(proc'.exitArg) = c
                  /\ proc'.exitArg[3] = (IF c < 0 THEN LimbBase - 1 ELSE 0)
                  /\ proc'.exitArg[4] = proc'.exitArg[3]]_vars

\* C16 witness: execve failed, the child wrote the cell and called the exit
\* syscall, which returned; the child is about to call it again while the
\* caller already holds a Child.
C16_Witness ==
    /\ proc.pc = "exit"
    /\ proc.execCalled
    /\ proc.returns = MaxExitReturns
    /\ call.pc = "returned"
    /\ child # None

\* C17 as claimed: in a spawn in which clone made a process, once the child
\* has left the closure (it has exec'd, or it is past its write), it has
\* written the cell exactly once.
C17_WrittenExactlyOnce ==
    (call.pid # 0 /\ proc.pid = call.pid
        /\ proc.pc \in {"running", "exit", "zombie", "reaped"}) =>
        proc.cellWrites = 1

\* C17 as amended: in a spawn in which clone made a process, the child
\* writes the cell at most once: never when execve succeeds (the cell keeps
\* the 0 it was allocated with), and once, after the closure has returned
\* the error of the wiring or of execve, with that error encoded as a
\* nonzero word.  The write goes to the child's copy of the cell (clone is
\* not given CLONE_VM), so the caller's cell stays 0.  The parent reads its
\* cell exactly once, in the Ok(pid) arm, and never writes it after clone;
\* the child never reads it.
C17_WrittenOnlyOnFailure ==
    (call.pid # 0 /\ proc.pid = call.pid) =>
        /\ proc.cellWrites <= 1
        /\ proc.cellWrites = 1 <=>
              (proc.err.tag = "Err" /\ proc.pc \in {"exit", "zombie", "reaped"})
        /\ (proc.execCalled /\ proc.err.tag # "Err") =>
              (proc.cellWrites = 0 /\ proc.cell = ZeroWord)
        /\ proc.cellWrites = 1 =>
              (proc.cell # ZeroWord /\ demux(proc.cell) = proc.err)
        /\ res = ZeroWord
        /\ call.cellReads = (IF call.pc = "returned" THEN 1 ELSE 0)
        /\ call.cellWrites = 0
        /\ proc.cellReads = 0

\* C17 witness: one child has exec'd without writing the cell; the parent
\* has read the cell once.
C17_Witness ==
    /\ call.pid # 0
    /\ proc.pid = call.pid
    /\ proc.pc = "running"
    /\ proc.cellWrites = 0
    /\ call.pc = "returned"
    /\ call.cellReads = 1

\* Some block of the closure has returned an error.
WiringFailed == \E s \in Streams : proc.results[s].tag = "Err"

\* C18: in the child, once the three blocks and the try! lines have run:
\* if any block returned an error, no variable has been set (the child's
\* environment is the one it started with), execve has not been called, and
\* what the child writes to the cell is the encoding of a block's error; if
\* no block returned an error, the child reaches execve only with every
\* override of the Command installed in its environment (and nothing else
\* changed), and execve is called once: after the call the child is never
\* again at or before the call.
C18_EnvAndExecveOnlyAfterWiring ==
    (proc.pc \notin {"none", "wire_stderr", "wire_stdout", "wire_stdin", "try"}) =>
        /\ WiringFailed =>
              /\ ~proc.envSet
              /\ ~proc.execCalled
              /\ proc.execPath = None
              /\ proc.pc \in {"write", "exit", "zombie", "reaped"}
              /\ \A k \in DOMAIN proc.env : proc.env[k] = penv[k]
              /\ proc.pc # "write" =>
                    /\ proc.cellWrites = 1
                    /\ \E s \in Streams :
                          /\ proc.results[s].tag = "Err"
                          /\ proc.cell = NegWord(proc.results[s].val)
        /\ ~WiringFailed =>
              /\ proc.pc # "setenv" =>
                    /\ proc.envSet
                    /\ \A k \in Keys :
                          proc.env[k] = IF proc.overrides[k] # NoVal
                                        THEN proc.overrides[k] ELSE penv[k]
                    /\ proc.env["PATH"] = penv["PATH"]
              /\ proc.pc = "setenv" => (~proc.envSet /\ ~proc.execCalled)
              /\ proc.pc = "execve" => ~proc.execCalled
              /\ proc.pc \notin {"setenv", "execve"} => proc.execCalled

\* C18 witness: only the dup for stdin failed; the child has set no
\* variable although the Command has an override, has not called execve, and
\* has written the error to the cell.
C18_Witness ==
    /\ proc.pc = "exit"
    /\ proc.results["stderr"].tag = "Ok"
    /\ proc.results["stdout"].tag = "Ok"
    /\ proc.results["stdin"].tag = "Err"
    /\ \E k \in Keys : proc.overrides[k] # NoVal /\ proc.env[k] # proc.overrides[k]
    /\ ~proc.execCalled
    /\ proc.cell = NegWord(proc.results["stdin"].val)

\* A step in which a Child::wait call returns.
WaitReturns == waited'.tag # "None" /\ (waited' # waited \/ proc' # proc)

\* C19: a Child::wait call waits for the stored process id: it returns Ok
\* only for a process that has exited and was not waited for yet, which it
\* reaps, and an error otherwise.  Either way it leaves the Child as it was
\* (the stored id and the three handles), closes no descriptor (the stdin
\* handle's descriptor stays as it was in the caller), and id() gives the
\* same value after the call as before it.
C19_WaitLeavesChild ==
    [][WaitReturns =>
          /\ child # None
          /\ child' = child
          /\ id(child'[1]) = id(child[1])
          /\ id(child[1]) = <<call.pid, 0>>
          /\ waited'.pid = child[1].pid
          /\ (waited'.tag = "Ok") => (proc.pc = "zombie" /\ proc'.pc = "reaped")
          /\ (waited'.tag = "Err") => (proc.pc = "reaped" /\ proc' = proc)
          /\ fds' = fds
          /\ closes' = closes
          /\ \A fd \in Fds :
                (<<fd>> = child[1].stdin /\ IsOpen(fds, fd)) => IsOpen(fds', fd)]_vars

\* C19 witness: wait has succeeded and a second wait has failed; the Child
\* still has its stdin handle, whose descriptor is still open in the caller.
C19_Witness ==
    /\ waited.tag = "Err"
    /\ child # None
    /\ child[1].pid = waited.pid
    /\ child[1].stdin # None
    /\ IsOpen(fds, child[1].stdin[1])
    /\ closes[child[1].stdin[1] + 1] = 0

\* A step in which the caller drops the Child of a successful spawn.
DropsChild == child # None /\ child' = None /\ call.result.tag = "Ok"

\* C20: when the Child of a successful spawn of a Command whose streams are
\* Piped, Null or Inherit is dropped, every descriptor of every pipe of the
\* Command has been closed by the caller exactly once, and the caller's open
\* descriptors are again 0, 1 and 2, as before the Stdio values were made.
C20_NoLeakAfterDrop ==
    [][(DropsChild /\ \A s \in Streams : call.stdio[s].tag # "Raw") =>
          /\ \A s \in Streams : \A fd \in OwnedFds(call.stdio[s]) :
                closes'[fd + 1] = 1
          /\ \A fd \in Fds : IsOpen(fds', fd) <=> fd \in 0 .. 2]_vars

====
